---- MODULE Spec2Model ----
(***************************************************************************)
(* Model of the current-flow store (frontend/src/stores/currentFlowStore). *)
(* The store is a set of module-level svelte stores mutated by four        *)
(* exported functions and by the callbacks that executeMessage hands to    *)
(* the stream transport.  JavaScript runs every function and callback to   *)
(* completion, so each of them is one atomic action; the only suspension   *)
(* point is the await in selectFlowInstance, which splits that function    *)
(* into the part before the await and the two continuations.               *)
(***************************************************************************)
EXTENDS Integers, Sequences, FiniteSets, TLC

(***************************************************************************)
(* Bounds of the exploration.                                              *)
(***************************************************************************)
MaxHandles == 2      \* executions started (connection handles opened)
MaxSteps == 2        \* length of the Step Ledger
MaxPending == 1      \* transcript loads in flight

(***************************************************************************)
(* Values.  Identifiers are sequences of one-character strings so that     *)
(* split('-') can be computed; other strings are TLA+ strings.             *)
(***************************************************************************)
Null == "<null>"                 \* null in a string-valued field
NullId == << "<null>" >>         \* null in an identifier-valued field
NoHandle == 0                    \* null connectionControl

FlowIds == { <<"f">> }
InstanceIds == { <<"f", "-", "a", "-", "b">> }
Messages == { "hi" }
Clock == { 1 }
Texts == { "a", "b" }
CompleteFlags == { "undefined", "true" }
ErrorMessages == { "", "boom" }
LoadErrors == { "timeout" }
AgentIds == { "a1" }

DefaultErrorText == "An error occurred during flow execution"
MaxReconnectErrorText == "Maximum reconnection attempts reached. Please try again."

\* JavaScript truthiness (!!v, v || d, if (v)) of the values above.
Truthy(v) == v \notin { "undefined", "false", "", Null }

AgentStep(a) ==
  [ step_id |-> << "step-", 0 >>, agent_id |-> a, timestamp |-> 0,
    role |-> "assistant", input |-> "in", response |-> "out",
    next_agent |-> Null ]

AgentSteps == { AgentStep(a) : a \in AgentIds }

NullStep ==
  [ step_id |-> << Null, 0 >>, agent_id |-> Null, timestamp |-> 0,
    role |-> Null, input |-> Null, response |-> Null, next_agent |-> Null ]

\* Transcripts getFlowInstance may resolve to.
Transcripts == { << >>, << AgentStep("a1") >> }

VARIABLES
  selectedInstanceId,  \* store selectedInstanceId
  currentSteps,        \* store currentSteps (the Step Ledger)
  executionState,      \* store executionState
  partialOutput,       \* store partialOutput
  opened,              \* handles returned by executeFlowStream are 1..opened
  closed,              \* handles on which close() has been called
  pendingLoads,        \* instance ids of getFlowInstance calls not yet settled
  loading,             \* uiStateStore loading flag, as set by setLoading
  setErrorCalls,       \* messages passed to setError by the last operation
  last                 \* the last operation: its name, its arguments, in h the
                       \* handle it belongs to or called close() on, in from the
                       \* phase it started in, in old the text it replaced, in
                       \* again whether it repeats the operation before it
                       \* (kept for cancelExecution, onReconnecting and, per
                       \* handle, onCompleteStep), in steps the transcript a
                       \* load resolved to, in direct whether a settled load
                       \* came right after the selectFlowInstance that began it

vars == << selectedInstanceId, currentSteps, executionState, partialOutput,
           opened, closed, pendingLoads, loading, setErrorCalls,
           last >>

InitialExecutionState ==
  [ isExecuting |-> FALSE, error |-> Null, flowId |-> NullId,
    connectionControl |-> NoHandle ]

InitialPartialOutput ==
  [ text |-> "", agentId |-> Null, complete |-> TRUE ]

\* Derived stores.
isExecuting == executionState.isExecuting
executionError == executionState.error
currentFlowId == executionState.flowId

latestStep ==
  IF Len(currentSteps) > 0 THEN currentSteps[Len(currentSteps)] ELSE NullStep

currentStreamingText == partialOutput.text
isStreamingComplete == partialOutput.complete

\* The states of the execution state machine, read off ExecutionState.
Phase(state) ==
  IF state.isExecuting THEN "Streaming"
  ELSE IF state.error # Null THEN "Failed"
  ELSE "Idle"

NoArgs ==
  [ op |-> "init", h |-> NoHandle, text |-> "", flag |-> "undefined",
    step |-> NullStep, message |-> "", id |-> NullId, from |-> "Idle",
    old |-> "", again |-> FALSE, steps |-> << >>, direct |-> FALSE ]

Op(name) == [ NoArgs EXCEPT !.op = name, !.from = Phase(executionState) ]

\* The handle in a set of at most one handle.
closedHandle(hs) == IF hs = {} THEN NoHandle ELSE CHOOSE h \in hs : TRUE

Init ==
  /\ selectedInstanceId = NullId
  /\ currentSteps = << >>
  /\ executionState = InitialExecutionState
  /\ partialOutput = InitialPartialOutput
  /\ opened = 0
  /\ closed = {}
  /\ pendingLoads = << >>
  /\ loading = FALSE
  /\ setErrorCalls = << >>
  /\ last = NoArgs

\* A handle delivers events from the moment executeFlowStream returned it
\* until close() is called on it.
Live(h) == h \in 1..opened /\ h \notin closed

(***************************************************************************)
(* executeMessage(flowId, message)                                         *)
(***************************************************************************)
ExecutingStateKeepingError(flowId) ==
  [ isExecuting |-> TRUE, error |-> executionState.error, flowId |-> flowId,
    connectionControl |-> NoHandle ]

ExecutingState(flowId) ==
  [ isExecuting |-> TRUE, error |-> Null, flowId |-> flowId,
    connectionControl |-> NoHandle ]

StreamingPartialOutput ==
  [ text |-> "", agentId |-> Null, complete |-> FALSE ]

userStep(message, now, date) ==
  [ step_id |-> << "user-", now >>, agent_id |-> "user", timestamp |-> date,
    role |-> "user", input |-> Null, response |-> message,
    next_agent |-> Null ]

prependStep(steps, step) == << step >> \o steps

appendStep(steps, step) == Append(steps, step)

storeConnectionControl(state, connectionControl) ==
  [ state EXCEPT !.connectionControl = connectionControl ]

executeMessage(flowId, message, now, date) ==
  /\ opened < MaxHandles
  /\ Len(currentSteps) < MaxSteps
  /\ partialOutput' = StreamingPartialOutput
  /\ currentSteps' = appendStep(currentSteps, userStep(message, now, date))
  /\ opened' = opened + 1
  /\ executionState' = storeConnectionControl(ExecutingState(flowId), opened + 1)
  /\ setErrorCalls' = << >>
  /\ last' = [ Op("executeMessage") EXCEPT !.h = opened + 1, !.message = message,
                                           !.id = flowId ]
  /\ UNCHANGED << selectedInstanceId, closed, pendingLoads, loading >>

(***************************************************************************)
(* The event sink handed to executeFlowStream by the execution of handle h *)
(***************************************************************************)
partialOutputConcat(state, text, flag) ==
  [ state EXCEPT !.text = state.text \o text, !.complete = Truthy(flag) ]

partialOutputUpdate(state, text, flag) ==
  [ state EXCEPT !.text = text, !.complete = Truthy(flag) ]

onPartialOutput(h, text, flag) ==
  /\ Live(h)
  /\ partialOutput' = partialOutputUpdate(partialOutput, text, flag)
  /\ setErrorCalls' = << >>
  /\ last' = [ Op("onPartialOutput") EXCEPT !.h = h, !.text = text, !.flag = flag,
                                            !.old = partialOutput.text ]
  /\ UNCHANGED << selectedInstanceId, currentSteps, executionState, opened,
                  closed, pendingLoads, loading >>

completeStepUpdateKeepingAgent(state, step) ==
  [ state EXCEPT !.complete = TRUE ]

completeStepUpdate(state, step) ==
  [ state EXCEPT !.agentId = step.agent_id, !.complete = TRUE ]

onCompleteStepIfExecuting(h, step) ==
  /\ Live(h)
  /\ Len(currentSteps) < MaxSteps
  /\ partialOutput' = completeStepUpdate(partialOutput, step)
  /\ currentSteps' = IF executionState.isExecuting
                       THEN appendStep(currentSteps, step)
                       ELSE currentSteps
  /\ setErrorCalls' = << >>
  /\ last' = [ Op("onCompleteStep") EXCEPT !.h = h, !.step = step,
                 !.again = (last.op = "onCompleteStep" /\ last.h = h) ]
  /\ UNCHANGED << selectedInstanceId, executionState, opened, closed,
                  pendingLoads, loading >>

onCompleteStep(h, step) ==
  /\ Live(h)
  /\ Len(currentSteps) < MaxSteps
  /\ partialOutput' = completeStepUpdate(partialOutput, step)
  /\ currentSteps' = appendStep(currentSteps, step)
  /\ setErrorCalls' = << >>
  /\ last' = [ Op("onCompleteStep") EXCEPT !.h = h, !.step = step,
                 !.again = (last.op = "onCompleteStep" /\ last.h = h) ]
  /\ UNCHANGED << selectedInstanceId, executionState, opened, closed,
                  pendingLoads, loading >>

errorText(message) ==
  IF Truthy(message) THEN message ELSE DefaultErrorText

errorUpdate(state, message) ==
  [ state EXCEPT !.isExecuting = FALSE, !.error = errorText(message) ]

onError(h, message) ==
  /\ Live(h)
  /\ executionState' = errorUpdate(executionState, message)
  /\ setErrorCalls' = << errorText(message) >>
  /\ last' = [ Op("onError") EXCEPT !.h = h, !.message = message ]
  /\ UNCHANGED << selectedInstanceId, currentSteps, partialOutput, opened,
                  closed, pendingLoads, loading >>

onReconnectingStopsExecuting(h) ==
  /\ Live(h)
  /\ executionState' = [ executionState EXCEPT !.isExecuting = FALSE ]
  /\ setErrorCalls' = << >>
  /\ last' = [ Op("onReconnecting") EXCEPT !.h = h,
                                           !.again = (last.op = "onReconnecting") ]
  /\ UNCHANGED << selectedInstanceId, currentSteps, partialOutput, opened,
                  closed, pendingLoads, loading >>

onReconnecting(h) ==
  /\ Live(h)
  /\ setErrorCalls' = << >>
  /\ last' = [ Op("onReconnecting") EXCEPT !.h = h,
                                           !.again = (last.op = "onReconnecting") ]
  /\ UNCHANGED << selectedInstanceId, currentSteps, executionState,
                  partialOutput, opened, closed, pendingLoads, loading >>

maxReconnectUpdate(state) ==
  [ state EXCEPT !.isExecuting = FALSE, !.error = MaxReconnectErrorText ]

onMaxReconnectAttemptsReached(h) ==
  /\ Live(h)
  /\ executionState' = maxReconnectUpdate(executionState)
  /\ setErrorCalls' = << MaxReconnectErrorText >>
  /\ last' = [ Op("onMaxReconnectAttemptsReached") EXCEPT !.h = h ]
  /\ UNCHANGED << selectedInstanceId, currentSteps, partialOutput, opened,
                  closed, pendingLoads, loading >>

(***************************************************************************)
(* The cancel function returned by the execution of handle h               *)
(***************************************************************************)
cancelUpdate(state) ==
  [ state EXCEPT !.isExecuting = FALSE, !.connectionControl = NoHandle ]

cancel(h) ==
  /\ h \in 1..opened
  /\ closed' = closed \cup { h }
  /\ executionState' = cancelUpdate(executionState)
  /\ setErrorCalls' = << >>
  /\ last' = [ Op("cancel") EXCEPT !.h = h ]
  /\ UNCHANGED << selectedInstanceId, currentSteps, partialOutput, opened,
                  pendingLoads, loading >>

(***************************************************************************)
(* cancelExecution()                                                       *)
(***************************************************************************)
cancelGuardAnyHandle(state) ==
  state.connectionControl # NoHandle

cancelGuard(state) ==
  state.connectionControl # NoHandle /\ state.isExecuting

closedByCancelExecution(state) ==
  IF cancelGuard(state) THEN { state.connectionControl } ELSE {}

cancelExecutionUpdate(state) ==
  IF cancelGuard(state) THEN cancelUpdate(state) ELSE state

cancelExecution ==
  /\ closed' = closed \cup closedByCancelExecution(executionState)
  /\ executionState' = cancelExecutionUpdate(executionState)
  /\ setErrorCalls' = << >>
  /\ last' = [ Op("cancelExecution") EXCEPT
                 !.h = closedHandle(closedByCancelExecution(executionState)),
                 !.again = (last.op = "cancelExecution") ]
  /\ UNCHANGED << selectedInstanceId, currentSteps, partialOutput, opened,
                  pendingLoads, loading >>

(***************************************************************************)
(* resetCurrentFlow()                                                      *)
(***************************************************************************)
ResetExecutionStateKeepingError ==
  [ isExecuting |-> FALSE, error |-> executionState.error, flowId |-> NullId,
    connectionControl |-> NoHandle ]

ResetExecutionState ==
  [ isExecuting |-> FALSE, error |-> Null, flowId |-> NullId,
    connectionControl |-> NoHandle ]

ResetPartialOutput ==
  [ text |-> "", agentId |-> Null, complete |-> TRUE ]

resetCurrentFlow ==
  /\ closed' = closed \cup closedByCancelExecution(executionState)
  /\ selectedInstanceId' = NullId
  /\ currentSteps' = << >>
  /\ executionState' = ResetExecutionState
  /\ partialOutput' = ResetPartialOutput
  /\ setErrorCalls' = << >>
  /\ last' = [ Op("resetCurrentFlow") EXCEPT
                 !.h = closedHandle(closedByCancelExecution(executionState)) ]
  /\ UNCHANGED << opened, pendingLoads, loading >>

(***************************************************************************)
(* selectFlowInstance(instanceId): up to the await, then the continuation  *)
(* after getFlowInstance resolved or rejected.                             *)
(***************************************************************************)
closedBySelectIfExecuting(state) ==
  IF state.connectionControl # NoHandle /\ state.isExecuting
    THEN { state.connectionControl } ELSE {}

closedBySelect(state) ==
  IF state.connectionControl # NoHandle THEN { state.connectionControl } ELSE {}

IdTruthy(id) == id # NullId /\ id # << >>

SelectedExecutionState ==
  [ isExecuting |-> FALSE, error |-> Null, flowId |-> NullId,
    connectionControl |-> NoHandle ]

SelectedPartialOutput ==
  [ text |-> "", agentId |-> Null, complete |-> TRUE ]

selectFlowInstance(instanceId) ==
  /\ IdTruthy(instanceId) => Len(pendingLoads) < MaxPending
  /\ closed' = closed \cup closedBySelect(executionState)
  /\ selectedInstanceId' = instanceId
  /\ currentSteps' = << >>
  /\ executionState' = SelectedExecutionState
  /\ partialOutput' = SelectedPartialOutput
  /\ loading' = IF IdTruthy(instanceId) THEN TRUE ELSE loading
  /\ pendingLoads' = IF IdTruthy(instanceId) THEN Append(pendingLoads, instanceId)
                                             ELSE pendingLoads
  /\ setErrorCalls' = << >>
  /\ last' = [ Op("selectFlowInstance") EXCEPT !.id = instanceId,
                 !.h = closedHandle(closedBySelect(executionState)) ]
  /\ UNCHANGED << opened >>

\* String.prototype.split(sep) for a one-character separator.
RECURSIVE split(_, _)
split(s, sep) ==
  IF \A i \in 1..Len(s) : s[i] # sep
    THEN << s >>
    ELSE LET i == CHOOSE k \in 1..Len(s) :
                    s[k] = sep /\ \A j \in 1..(k - 1) : s[j] # sep
         IN  << SubSeq(s, 1, i - 1) >> \o split(SubSeq(s, i + 1, Len(s)), sep)

flowIdOfWholeId(instanceId) == instanceId

flowIdOf(instanceId) == split(instanceId, "-")[1]

\* Whether the load of instance id settles right after the call that began it.
Direct(id) == last.op = "selectFlowInstance" /\ last.id = id

setFlowId(state, flowId) == [ state EXCEPT !.flowId = flowId ]

Remove(q, i) == SubSeq(q, 1, i - 1) \o SubSeq(q, i + 1, Len(q))

loadResolved(i, steps) ==
  /\ i \in 1..Len(pendingLoads)
  /\ currentSteps' = steps
  /\ executionState' = setFlowId(executionState, flowIdOf(pendingLoads[i]))
  /\ loading' = FALSE
  /\ pendingLoads' = Remove(pendingLoads, i)
  /\ setErrorCalls' = << >>
  /\ last' = [ Op("loadResolved") EXCEPT !.id = pendingLoads[i], !.steps = steps,
                                         !.direct = Direct(pendingLoads[i]) ]
  /\ UNCHANGED << selectedInstanceId, partialOutput, opened, closed >>

loadRejectedSetsExecutionError(i, message) ==
  /\ i \in 1..Len(pendingLoads)
  /\ loading' = FALSE
  /\ pendingLoads' = Remove(pendingLoads, i)
  /\ executionState' = [ executionState EXCEPT !.error = message ]
  /\ setErrorCalls' = << "Failed to load flow instance: " \o message >>
  /\ last' = [ Op("loadRejected") EXCEPT !.id = pendingLoads[i], !.message = message,
                                         !.direct = Direct(pendingLoads[i]) ]
  /\ UNCHANGED << selectedInstanceId, currentSteps, partialOutput, opened, closed >>

loadRejected(i, message) ==
  /\ i \in 1..Len(pendingLoads)
  /\ loading' = FALSE
  /\ pendingLoads' = Remove(pendingLoads, i)
  /\ setErrorCalls' = << "Failed to load flow instance: " \o message >>
  /\ last' = [ Op("loadRejected") EXCEPT !.id = pendingLoads[i], !.message = message,
                                         !.direct = Direct(pendingLoads[i]) ]
  /\ UNCHANGED << selectedInstanceId, currentSteps, executionState,
                  partialOutput, opened, closed >>

(***************************************************************************)
(* The specification                                                       *)
(***************************************************************************)
Next ==
  \/ \E f \in FlowIds, m \in Messages, now \in Clock, date \in Clock :
       now <= date /\ executeMessage(f, m, now, date)
  \/ \E h \in 1..MaxHandles, t \in Texts, c \in CompleteFlags :
       onPartialOutput(h, t, c)
  \/ \E h \in 1..MaxHandles, s \in AgentSteps : onCompleteStep(h, s)
  \/ \E h \in 1..MaxHandles, m \in ErrorMessages : onError(h, m)
  \/ \E h \in 1..MaxHandles : onReconnecting(h)
  \/ \E h \in 1..MaxHandles : onMaxReconnectAttemptsReached(h)
  \/ \E h \in 1..MaxHandles : cancel(h)
  \/ cancelExecution
  \/ resetCurrentFlow
  \/ \E id \in InstanceIds \cup { NullId } : selectFlowInstance(id)
  \/ \E i \in 1..MaxPending, t \in Transcripts : loadResolved(i, t)
  \/ \E i \in 1..MaxPending, m \in LoadErrors : loadRejected(i, m)

Spec == Init /\ [][Next]_vars

(***************************************************************************)
(* Properties                                                              *)
(***************************************************************************)
LiveHandles == { h \in 1..opened : h \notin closed }

\* C1: a stale cancel leaves the newer execution untouched.  When the cancel
\* function of an execution that was never cancelled is called after a later
\* executeMessage bound a newer handle, isExecuting stays true and the bound
\* handle stays the newer one.
StaleCancelLeavesNewerExecution ==
  [][ ( /\ last'.op = "cancel"
        /\ last'.h \notin closed
        /\ executionState.isExecuting
        /\ executionState.connectionControl > last'.h )
      => ( /\ executionState'.isExecuting
           /\ executionState'.connectionControl = executionState.connectionControl )
    ]_vars

\* C2: after every operation or event, isExecuting is true exactly when a
\* connection handle is bound.
ExecutingIffHandleBound ==
  executionState.isExecuting <=> executionState.connectionControl # NoHandle

\* C3: handling onError of the active stream yields Failed: error is the
\* error's message (for an error that has one), isExecuting is false, the
\* handle is released, and the error was passed to the error reporter.
OnErrorYieldsFailed ==
  [][ ( /\ last'.op = "onError"
        /\ executionState.isExecuting
        /\ last'.h = executionState.connectionControl )
      => ( /\ last'.message # "" => executionState'.error = last'.message
           /\ ~ executionState'.isExecuting
           /\ executionState'.connectionControl = NoHandle
           /\ Len(setErrorCalls') = 1
           /\ last'.message # "" => setErrorCalls'[1] = last'.message )
    ]_vars

\* C4: handling onMaxReconnectAttemptsReached of the active stream, whatever
\* the number of onReconnecting notifications before it, yields Failed:
\* isExecuting is false, error is the fixed terminal message, the handle is
\* released.
OnMaxReconnectYieldsFailed ==
  [][ ( /\ last'.op = "onMaxReconnectAttemptsReached"
        /\ executionState.isExecuting
        /\ last'.h = executionState.connectionControl )
      => ( /\ ~ executionState'.isExecuting
           /\ executionState'.error # Null
           /\ executionState'.error
                = "Maximum reconnection attempts reached. Please try again."
           /\ executionState'.connectionControl = NoHandle )
    ]_vars

\* C5: resetCurrentFlow, from any state, yields the initial ExecutionState,
\* PartialOutput {"", null, true} and an empty Step Ledger.
ResetYieldsInitialState ==
  last.op = "resetCurrentFlow"
  => ( /\ executionState = [ isExecuting |-> FALSE, error |-> Null,
                             flowId |-> NullId, connectionControl |-> NoHandle ]
       /\ partialOutput = [ text |-> "", agentId |-> Null, complete |-> TRUE ]
       /\ currentSteps = << >> )

ResetFromFailedMidLoad ==
  /\ last.op = "resetCurrentFlow"
  /\ last.from = "Failed"
  /\ pendingLoads # << >>
  /\ loading

\* C6: a callback of a superseded stream (its handle is older than the one a
\* later executeMessage bound) changes neither ExecutionState nor
\* PartialOutput nor the Step Ledger.
SupersededCallbackIgnored ==
  [][ ( /\ last'.op \in { "onError", "onMaxReconnectAttemptsReached",
                          "onPartialOutput", "onCompleteStep" }
        /\ executionState.connectionControl # NoHandle
        /\ last'.h < executionState.connectionControl )
      => ( /\ executionState' = executionState
           /\ partialOutput' = partialOutput
           /\ currentSteps' = currentSteps )
    ]_vars

\* C7: PartialOutput.complete is false only while a stream is active, that is
\* while isExecuting is true and the bound connection handle is not closed; in
\* particular it is not false once cancelExecution, the returned cancel,
\* onError or onMaxReconnectAttemptsReached has ended the execution.
IncompleteOnlyWhileStreamActive ==
  ~ partialOutput.complete
  => ( /\ executionState.isExecuting
       /\ executionState.connectionControl \in LiveHandles )

\* C8: after each onPartialOutput event currentStreamingText is that event's
\* text (the previous text is replaced), isStreamingComplete is false unless
\* the event's complete flag was truthy, and neither the Step Ledger nor
\* ExecutionState changed.
PartialOutputReplacesText ==
  [][ last'.op = "onPartialOutput"
      => ( /\ partialOutput'.text = last'.text
           /\ last'.flag \in { "undefined", "false" } => ~ partialOutput'.complete
           /\ last'.flag = "true" => partialOutput'.complete
           /\ currentSteps' = currentSteps
           /\ executionState' = executionState )
    ]_vars

SecondChunkWhileStreaming ==
  /\ last.op = "onPartialOutput"
  /\ last.from = "Streaming"
  /\ last.h = executionState.connectionControl
  /\ last.old = "a"
  /\ last.text = "b"
  /\ last.flag = "undefined"
  /\ currentStreamingText = "b"
  /\ ~ isStreamingComplete

\* C9: the Step Ledger is in arrival order.  executeMessage appends the user
\* step at the end, onCompleteStep appends its step at the end, and latestStep
\* is the last element of the ledger, or null when the ledger is empty.
LedgerInArrivalOrder ==
  [][ /\ last'.op = "executeMessage"
         => ( /\ Len(currentSteps') = Len(currentSteps) + 1
              /\ SubSeq(currentSteps', 1, Len(currentSteps)) = currentSteps
              /\ currentSteps'[Len(currentSteps')].role = "user"
              /\ currentSteps'[Len(currentSteps')].agent_id = "user"
              /\ currentSteps'[Len(currentSteps')].response = last'.message )
      /\ last'.op = "onCompleteStep"
         => currentSteps' = currentSteps \o << last'.step >>
      /\ currentSteps' = << >> => latestStep' = NullStep
      /\ currentSteps' # << >> => latestStep' = currentSteps'[Len(currentSteps')]
    ]_vars

UserStepThenCompletedStep ==
  /\ last.op = "onCompleteStep"
  /\ Len(currentSteps) = 2
  /\ currentSteps[1].role = "user"
  /\ currentSteps[2] = last.step
  /\ latestStep = last.step
  /\ latestStep.role = "assistant"

\* C10: cancelExecution with no execution active changes no store, closes no
\* handle and reports no error; and after any cancelExecution no execution is
\* active, so a second call in a row is such a no-op.
CancelExecutionIdleNoOp ==
  [][ last'.op = "cancelExecution"
      => ( /\ ~ ( executionState.isExecuting
                  /\ executionState.connectionControl # NoHandle )
              => ( /\ executionState' = executionState
                   /\ partialOutput' = partialOutput
                   /\ currentSteps' = currentSteps
                   /\ selectedInstanceId' = selectedInstanceId
                   /\ loading' = loading
                   /\ pendingLoads' = pendingLoads
                   /\ opened' = opened
                   /\ closed' = closed
                   /\ setErrorCalls' = << >> )
           /\ ~ ( executionState'.isExecuting
                  /\ executionState'.connectionControl # NoHandle ) )
    ]_vars

CancelExecutionTwice ==
  /\ last.op = "cancelExecution"
  /\ last.again
  /\ last.h = NoHandle
  /\ closed # {}
  /\ ~ partialOutput.complete

\* C11: onReconnecting only observes.  It leaves ExecutionState, PartialOutput
\* and the Step Ledger as they were, so isExecuting stays true across any
\* number of reconnect notifications.
ReconnectingOnlyObserves ==
  [][ last'.op = "onReconnecting"
      => ( /\ executionState' = executionState
           /\ partialOutput' = partialOutput
           /\ currentSteps' = currentSteps
           /\ executionState.isExecuting => executionState'.isExecuting )
    ]_vars

ReconnectingTwiceWhileStreaming ==
  /\ last.op = "onReconnecting"
  /\ last.again
  /\ last.from = "Streaming"
  /\ last.h = executionState.connectionControl
  /\ executionState.isExecuting

\* C12: onCompleteStep sets PartialOutput.complete, sets PartialOutput's
\* originator to the step's agent id, appends the step to the Step Ledger and
\* leaves isExecuting and the handle alone, so an execution can deliver several
\* completed steps, each appended in order.
CompleteStepKeepsExecuting ==
  [][ last'.op = "onCompleteStep"
      => ( /\ partialOutput'.complete
           /\ partialOutput'.agentId = last'.step.agent_id
           /\ currentSteps' = Append(currentSteps, last'.step)
           /\ executionState'.isExecuting = executionState.isExecuting
           /\ executionState'.connectionControl
                = executionState.connectionControl )
    ]_vars

SecondCompletedStepOfExecution ==
  /\ last.op = "onCompleteStep"
  /\ last.again
  /\ last.from = "Streaming"
  /\ last.h = executionState.connectionControl
  /\ executionState.isExecuting
  /\ Len(currentSteps) = 2
  /\ currentSteps[1].role = "assistant"
  /\ currentSteps[2] = last.step
  /\ partialOutput.agentId = last.step.agent_id

\* C13: onCompleteStep and onError of one stream take effect in arrival order
\* and no delivered step is lost.  A step delivered after the error is still
\* appended and leaves the state Failed with its error; an error delivered
\* after the step leaves the step in the ledger and yields Failed with the
\* error recorded.
CompleteStepAndErrorInEitherOrder ==
  [][ /\ ( last'.op = "onCompleteStep" /\ Phase(executionState) = "Failed" )
         => ( /\ currentSteps'[Len(currentSteps')] = last'.step
              /\ SubSeq(currentSteps', 1, Len(currentSteps' ) - 1) = currentSteps
              /\ Phase(executionState') = "Failed"
              /\ executionState'.error = executionState.error )
      /\ last'.op = "onError"
         => ( /\ currentSteps' = currentSteps
              /\ Phase(executionState') = "Failed"
              /\ last'.message # "" => executionState'.error = last'.message )
    ]_vars

CompletedStepAfterError ==
  /\ last.op = "onCompleteStep"
  /\ last.from = "Failed"
  /\ opened = 1
  /\ last.h = 1
  /\ executionState.error = "boom"
  /\ ~ executionState.isExecuting
  /\ Len(currentSteps) = 2
  /\ currentSteps[1].role = "user"
  /\ latestStep = last.step

\* C14: selectFlowInstance, with an id or with null, closes the bound handle
\* if there is one, executing or not, and (before any load completes) leaves
\* the Step Ledger empty, ExecutionState initial and PartialOutput
\* {"", null, true}.
SelectClosesAndResets ==
  [][ last'.op = "selectFlowInstance"
      => ( /\ executionState.connectionControl # NoHandle
              => executionState.connectionControl \in closed'
           /\ currentSteps' = << >>
           /\ executionState' = [ isExecuting |-> FALSE, error |-> Null,
                                  flowId |-> NullId,
                                  connectionControl |-> NoHandle ]
           /\ partialOutput' = [ text |-> "", agentId |-> Null,
                                 complete |-> TRUE ]
           /\ selectedInstanceId' = last'.id )
    ]_vars

SelectClosedHandleOfFailedExecution ==
  /\ last.op = "selectFlowInstance"
  /\ last.from = "Failed"
  /\ last.h # NoHandle
  /\ last.h \in closed
  /\ last.id # NullId
  /\ pendingLoads # << >>

\* C15: when the load begun by selectFlowInstance(id) succeeds with nothing in
\* between, the Step Ledger is the loaded transcript and flowId is the part of
\* the instance id before its first "-", with isExecuting, error and the
\* handle at their reset values.
LoadInstallsTranscriptAndFlowId ==
  [][ ( last'.op = "loadResolved" /\ last'.direct )
      => ( /\ currentSteps' = last'.steps
           /\ \A k \in 1..Len(executionState'.flowId) :
                executionState'.flowId[k] # "-"
           /\ SubSeq(last'.id \o << "-" >>, 1, Len(executionState'.flowId) + 1)
                = executionState'.flowId \o << "-" >>
           /\ ~ executionState'.isExecuting
           /\ executionState'.error = Null
           /\ executionState'.connectionControl = NoHandle )
    ]_vars

LoadedRightAfterSelect ==
  /\ last.op = "loadResolved"
  /\ last.direct
  /\ last.id = << "f", "-", "a", "-", "b" >>
  /\ selectedInstanceId = last.id
  /\ currentFlowId = << "f" >>
  /\ currentSteps = << AgentStep("a1") >>
  /\ ~ loading

\* C16: a failed transcript load leaves ExecutionState and the Step Ledger as
\* they were; the failure goes to the error reporter and the loading indicator
\* is cleared.
LoadFailureLeavesExecutionState ==
  [][ last'.op = "loadRejected"
      => ( /\ executionState' = executionState
           /\ currentSteps' = currentSteps
           /\ ~ loading'
           /\ setErrorCalls'
                = << "Failed to load flow instance: " \o last'.message >> )
    ]_vars

LoadFailedDuringExecution ==
  /\ last.op = "loadRejected"
  /\ last.from = "Streaming"
  /\ executionState.isExecuting
  /\ executionState.error = Null
  /\ currentSteps # << >>
  /\ ~ loading
  /\ Len(setErrorCalls) = 1

\* C17: no failure is terminal.  After executeMessage, whatever the state it
\* was called in (Failed and Idle included), isExecuting is true, error is
\* null, flowId is the given id, the newly opened handle is bound and
\* PartialOutput is {"", null, false}.
ExecuteMessageYieldsStreaming ==
  last.op = "executeMessage"
  => ( /\ executionState.isExecuting
       /\ executionState.error = Null
       /\ executionState.flowId = last.id
       /\ executionState.connectionControl = opened
       /\ executionState.connectionControl = last.h
       /\ last.h \in LiveHandles
       /\ partialOutput = [ text |-> "", agentId |-> Null, complete |-> FALSE ] )

ExecuteMessageAfterFailure ==
  /\ last.op = "executeMessage"
  /\ last.from = "Failed"
  /\ opened = 2
  /\ executionState.connectionControl = 2
  /\ executionState.error = Null
  /\ executionState.isExecuting

\* C18: at most one connection handle is live.  In particular, when
\* executeMessage is called while no execution is active, the handle it opens
\* is the only one opened and not yet closed.
OneLiveHandleAfterIdleExecute ==
  ( last.op = "executeMessage" /\ last.from # "Streaming" )
  => Cardinality(LiveHandles) <= 1

\* C19: overlapping selections resolve to the latest.  A load that completes
\* for an instance that is no longer selected (here: nothing is selected any
\* more) changes neither the Step Ledger nor flowId.
SupersededLoadIgnored ==
  [][ ( /\ last'.op = "loadResolved"
        /\ selectedInstanceId = NullId )
      => ( /\ currentSteps' = currentSteps
           /\ executionState'.flowId = executionState.flowId )
    ]_vars

\* C20: no connection handle is dropped unclosed.  Whenever cancelExecution,
\* resetCurrentFlow or selectFlowInstance replaces a bound handle by null,
\* that handle has been closed; in particular resetCurrentFlow in the Failed
\* state after onError closes the handle that is still bound.
BoundHandleClosedBeforeCleared ==
  [][ ( /\ last'.op \in { "cancelExecution", "resetCurrentFlow",
                          "selectFlowInstance" }
        /\ executionState.connectionControl # NoHandle
        /\ executionState'.connectionControl = NoHandle )
      => executionState.connectionControl \in closed'
    ]_vars

====
